---- MODULE Spec2Model ----
(***************************************************************************)
(* capturesim (src/sim.py): a game presents frames at the times of a       *)
(* PresentMon trace, GameCapture samples some of them, and OBS composites  *)
(* the most recently captured frame on a fixed-rate clock.                 *)
(*                                                                         *)
(* Times are exact integers.  In the general configurations one time unit  *)
(* is 1/6 of the composite interval; in scenario A one unit is 1/3 of a    *)
(* microsecond (composite interval 50000, present delta 50001).            *)
(*                                                                         *)
(* GameFrame objects are mutable and aliased (the loop variable, the       *)
(* driver's lists, last_captured and OBS.last_capture_frame all refer to   *)
(* the same object), so they live in the heap `frames` and are referred to *)
(* by heap index.  An Optional value is <<>> (None) or <<v>>.              *)
(***************************************************************************)
EXTENDS Integers, Sequences, FiniteSets

VARIABLES
    rows,                    \* the msBetweenPresents column of the trace file
    capture_ratio,           \* args.capture_ratio
    rownum,                  \* FrameStream: rows already read
    gametime_ms,             \* FrameStream.gametime_ms
    frames,                  \* heap of GameFrame objects
    frame,                   \* main: the loop variable (Optional heap index)
    pc,                      \* main: "for", "while" or "done"
    presented_framelist,     \* main: heap indices
    captured_framelist,      \* main: heap indices
    last_captured,           \* main: Optional heap index
    capture_interval_ms,     \* GameCapture.capture_interval_ms
    gc_last_capture_frame,   \* GameCapture.last_capture_frame
    last_capture_ms,         \* GameCapture.last_capture_ms
    composite_interval_ms,   \* OBS.composite_interval_ms
    last_composite_framenum, \* OBS.last_composite_framenum
    last_composite_t_ms,     \* OBS.last_composite_t_ms
    obs_last_capture_frame,  \* OBS.last_capture_frame (Optional heap index)
    composited_framelist,    \* OBS.composited_framelist (class attribute)
    run,                     \* how many times main has been started
    first_output,            \* obs.composited_framelist as the first run left it
    composite_call           \* the latest call of obs.composite: its frame and result

vars == << rows, capture_ratio, rownum, gametime_ms, frames, frame, pc,
           presented_framelist, captured_framelist, last_captured,
           capture_interval_ms, gc_last_capture_frame, last_capture_ms,
           composite_interval_ms, last_composite_framenum, last_composite_t_ms,
           obs_last_capture_frame, composited_framelist, run, first_output,
           composite_call >>

----------------------------------------------------------------------------
(* Bounds *)

MaxFrames == 4

Deltas == {0, 1, 3, 7, 13}

\* args.capture_ratio: absent, 0, or a positive ratio
CaptureRatios == {<<>>, <<0>>, <<1>>, <<3>>}

\* composite interval of the general configurations, in model time units
GeneralFrametime == 2 * 3

\* scenario A: 10 presents 16.667 ms apart, 60 fps output, no capture limit
ScenarioA ==
    [frametime |-> 50000, ratio |-> <<0>>, rows |-> [i \in 1..10 |-> 50001]]

Traces == UNION {[1..n -> Deltas] : n \in 0..MaxFrames}

----------------------------------------------------------------------------
(* Data *)

None == <<>>

Some(v) == <<v>>

Disp == {"UNKNOWN", "IGNORED", "CAPTURED", "COMPOSITED", "COMPOSITED_DUP"}

GameFrame(present_frame, present_t_ms) ==
    [present_frame  |-> present_frame,
     present_t_ms   |-> present_t_ms,
     capture_t_ms   |-> None,
     composite_t_ms |-> None,
     composite_frame |-> None,
     disposition    |-> "UNKNOWN"]

----------------------------------------------------------------------------
(* GameCapture *)

\* main: the capture interval chosen from --capture-ratio
GameCaptureInterval(ratio, frametime) ==
    IF ratio = None THEN frametime \div 2
    ELSE IF ratio[1] = 0 THEN 0
    ELSE frametime \div ratio[1]

Elapsed(fr) == fr.present_t_ms - last_capture_ms

NotTimeToCaptureStrict(elapsed) == elapsed <= capture_interval_ms

NotTimeToCaptureNever(elapsed) == FALSE

\* "Time to capture?" fails
NotTimeToCapture(elapsed) == elapsed < capture_interval_ms

IgnoredUnmarked(fr) == fr

Ignored(fr) == [fr EXCEPT !.disposition = "IGNORED"]

Captured(fr) ==
    [fr EXCEPT !.disposition = "CAPTURED", !.capture_t_ms = Some(fr.present_t_ms)]

LongStallTriple(elapsed) == elapsed > capture_interval_ms * 3

LongStallInclusive(elapsed) == elapsed >= capture_interval_ms * 2

\* "if the time elapsed has been really long, go from now"
LongStall(elapsed) == elapsed > capture_interval_ms * 2

NextLastCaptureStuck(fr) ==
    IF LongStall(Elapsed(fr)) THEN fr.present_t_ms
    ELSE last_capture_ms

\* the value capture() leaves in last_capture_ms when it captures fr
NextLastCapture(fr) ==
    IF LongStall(Elapsed(fr)) THEN fr.present_t_ms
    ELSE last_capture_ms + capture_interval_ms

----------------------------------------------------------------------------
(* OBS *)

next_composite_time == last_composite_t_ms + composite_interval_ms

CompositableAny(fr) == TRUE

CompositableOnceComposited(fr) == fr.disposition \in {"COMPOSITED", "COMPOSITED_DUP"}

Compositable(fr) == fr.disposition \in {"CAPTURED", "COMPOSITED", "COMPOSITED_DUP"}

IsDuplicateNever(fr) == FALSE

IsDuplicateByOutputNumber(fr) ==
    /\ obs_last_capture_frame # None
    /\ fr.present_frame = last_composite_framenum

\* the frame handed in is the frame composited by the previous call
IsDuplicate(fr) ==
    /\ obs_last_capture_frame # None
    /\ fr.present_frame = frames[obs_last_capture_frame[1]].present_frame

FakeFrameStale(fr) ==
    [fr EXCEPT !.composite_frame = Some(last_composite_framenum),
               !.composite_t_ms = Some(next_composite_time),
               !.disposition = IF IsDuplicate(fr) THEN "COMPOSITED_DUP"
                               ELSE "COMPOSITED"]

FakeFrameLate(fr) ==
    [fr EXCEPT !.composite_frame = Some(last_composite_framenum + 1),
               !.composite_t_ms = Some(last_composite_t_ms),
               !.disposition = IF IsDuplicate(fr) THEN "COMPOSITED_DUP"
                               ELSE "COMPOSITED"]

\* the copy of the frame that goes into composited_framelist
FakeFrame(fr) ==
    [fr EXCEPT !.composite_frame = Some(last_composite_framenum + 1),
               !.composite_t_ms = Some(next_composite_time),
               !.disposition = IF IsDuplicate(fr) THEN "COMPOSITED_DUP"
                               ELSE "COMPOSITED"]

\* the original frame, marked as composited
MarkComposited(fr) ==
    [fr EXCEPT !.composite_frame = Some(last_composite_framenum + 1),
               !.composite_t_ms = Some(next_composite_time),
               !.disposition = IF IsDuplicate(fr) THEN "COMPOSITED_DUP"
                               ELSE "COMPOSITED"]

----------------------------------------------------------------------------
(* main *)

TimeToCompositeInclusive ==
    /\ last_captured # None
    /\ frames[frame[1]].present_t_ms >= next_composite_time

\* the driver's test for running the compositor before looking at `frame`
TimeToComposite ==
    /\ last_captured # None
    /\ frames[frame[1]].present_t_ms > next_composite_time

\* the objects main constructs before its loop; OBS.composited_framelist is a
\* class attribute and is not touched by OBS.__init__
Construct(frametime) ==
    /\ rownum = 0
    /\ gametime_ms = 0
    /\ frames = <<>>
    /\ frame = None
    /\ pc = "for"
    /\ presented_framelist = <<>>
    /\ captured_framelist = <<>>
    /\ last_captured = None
    /\ composite_interval_ms = frametime
    /\ capture_interval_ms = GameCaptureInterval(capture_ratio, frametime)
    /\ gc_last_capture_frame = -1
    /\ last_capture_ms = 0
    /\ last_composite_framenum = -1
    /\ last_composite_t_ms = 0
    /\ obs_last_capture_frame = None

Init ==
    /\ \/ /\ rows \in Traces
          /\ capture_ratio \in CaptureRatios
          /\ Construct(GeneralFrametime)
       \/ /\ rows = ScenarioA.rows
          /\ capture_ratio = ScenarioA.ratio
          /\ Construct(ScenarioA.frametime)
    /\ composited_framelist = <<>>
    /\ run = 1
    /\ first_output = <<>>
    /\ composite_call = None

\* FrameStream.getframes yields the next row's frame
GetFrame ==
    /\ pc = "for"
    /\ rownum < Len(rows)
    /\ gametime_ms' = gametime_ms + rows[rownum + 1]
    /\ frames' = Append(frames, GameFrame(rownum, gametime_ms'))
    /\ frame' = Some(Len(frames) + 1)
    /\ rownum' = rownum + 1
    /\ pc' = "while"
    /\ UNCHANGED << rows, capture_ratio, presented_framelist, captured_framelist,
                    last_captured, capture_interval_ms, gc_last_capture_frame,
                    last_capture_ms, composite_interval_ms,
                    last_composite_framenum, last_composite_t_ms,
                    obs_last_capture_frame, composited_framelist, run,
                    first_output, composite_call >>

\* the trace is exhausted: the loop ends
EndOfTrace ==
    /\ pc = "for"
    /\ rownum = Len(rows)
    /\ pc' = "done"
    /\ UNCHANGED << rows, capture_ratio, rownum, gametime_ms, frames, frame,
                    presented_framelist, captured_framelist, last_captured,
                    capture_interval_ms, gc_last_capture_frame, last_capture_ms,
                    composite_interval_ms, last_composite_framenum,
                    last_composite_t_ms, obs_last_capture_frame,
                    composited_framelist, run, first_output, composite_call >>

FramelistWithAliased(fr) ==
    [i \in 1..(Len(composited_framelist) + 1) |->
        IF /\ i <= Len(composited_framelist)
           /\ composited_framelist[i].present_frame # fr.present_frame
        THEN composited_framelist[i]
        ELSE MarkComposited(fr)]

\* the list obs.composite leaves after appending its copy of fr
FramelistWith(fr) == Append(composited_framelist, FakeFrame(fr))

\* obs.composite(frames[f])
CompositeOn(f) ==
    IF ~Compositable(frames[f])
    THEN /\ composite_call' = Some([frame |-> f, result |-> FALSE])
         /\ UNCHANGED << frames, composited_framelist, obs_last_capture_frame,
                         last_composite_framenum, last_composite_t_ms >>
    ELSE /\ composited_framelist' = FramelistWith(frames[f])
         /\ frames' = [frames EXCEPT ![f] = MarkComposited(frames[f])]
         /\ obs_last_capture_frame' = Some(f)
         /\ last_composite_framenum' = last_composite_framenum + 1
         /\ last_composite_t_ms' = next_composite_time
         /\ composite_call' = Some([frame |-> f, result |-> TRUE])

\* one iteration of the while loop: obs.composite(last_captured)
Composite ==
    /\ pc = "while"
    /\ TimeToComposite
    /\ CompositeOn(last_captured[1])
    /\ UNCHANGED << rows, capture_ratio, rownum, gametime_ms, frame, pc,
                    presented_framelist, captured_framelist, last_captured,
                    capture_interval_ms, gc_last_capture_frame, last_capture_ms,
                    composite_interval_ms, run, first_output >>

LastCapturedAfterFirstWins(f) ==
    IF last_captured = None THEN Some(f) ELSE last_captured

\* what the driver keeps as last_captured once gc.capture has accepted frame f
LastCapturedAfter(f) == Some(f)

\* the rest of the loop body: gc.capture(frame) and the driver's bookkeeping
Capture ==
    /\ pc = "while"
    /\ ~TimeToComposite
    /\ LET f == frame[1] IN
       IF NotTimeToCapture(Elapsed(frames[f]))
       THEN /\ frames' = [frames EXCEPT ![f] = Ignored(frames[f])]
            /\ UNCHANGED << gc_last_capture_frame, last_capture_ms,
                            last_captured, captured_framelist >>
       ELSE /\ gc_last_capture_frame' = frames[f].present_frame
            /\ frames' = [frames EXCEPT ![f] = Captured(frames[f])]
            /\ last_capture_ms' = NextLastCapture(frames[f])
            /\ last_captured' = LastCapturedAfter(f)
            /\ captured_framelist' = Append(captured_framelist, f)
    /\ presented_framelist' = Append(presented_framelist, frame[1])
    /\ pc' = "for"
    /\ UNCHANGED << rows, capture_ratio, rownum, gametime_ms, frame,
                    capture_interval_ms, composite_interval_ms,
                    last_composite_framenum, last_composite_t_ms,
                    obs_last_capture_frame, composited_framelist, run,
                    first_output, composite_call >>

Next == GetFrame \/ EndOfTrace \/ Composite \/ Capture

Spec == Init /\ [][Next]_vars

\* main is run a second time in the same interpreter, on the same trace file
Rerun ==
    /\ pc = "done"
    /\ run = 1
    /\ run' = 2
    /\ first_output' = composited_framelist
    /\ rownum' = 0
    /\ gametime_ms' = 0
    /\ frames' = <<>>
    /\ frame' = None
    /\ pc' = "for"
    /\ presented_framelist' = <<>>
    /\ captured_framelist' = <<>>
    /\ last_captured' = None
    /\ gc_last_capture_frame' = -1
    /\ last_capture_ms' = 0
    /\ last_composite_framenum' = -1
    /\ last_composite_t_ms' = 0
    /\ obs_last_capture_frame' = None
    /\ composite_call' = None
    /\ UNCHANGED << rows, capture_ratio, composite_interval_ms,
                    capture_interval_ms, composited_framelist >>

NextTwice == GetFrame \/ EndOfTrace \/ Composite \/ Capture \/ Rerun

SpecTwice == Init /\ [][NextTwice]_vars

\* a sequential program takes its next step whenever it has one
SpecLive == Spec /\ WF_vars(Next)

\* obs.composite called directly, outside the driver's loop, on any frame the
\* trace has produced so far
DirectCall ==
    /\ pc \in {"while", "done"}
    /\ pc' = "called"
    /\ \E f \in 1..Len(frames) : CompositeOn(f)
    /\ UNCHANGED << rows, capture_ratio, rownum, gametime_ms, frame,
                    presented_framelist, captured_framelist, last_captured,
                    capture_interval_ms, gc_last_capture_frame, last_capture_ms,
                    composite_interval_ms, run, first_output >>

NextDirect == GetFrame \/ EndOfTrace \/ Composite \/ Capture \/ DirectCall

SpecDirect == Init /\ [][NextDirect]_vars

\* the "unused" count of the STATS report
Unused == Len(captured_framelist) - Len(composited_framelist)

----------------------------------------------------------------------------
(* Vocabulary of the properties *)

Interval == capture_interval_ms

OutLen == Len(composited_framelist)

NumPresented == Len(presented_framelist)

NumCaptured == Len(captured_framelist)

\* present time of the i-th processed present event
PresentT(i) == frames[presented_framelist[i]].present_t_ms

\* gc.capture returned True for the i-th processed present event
WasCaptured(i) == \E k \in 1..NumCaptured : captured_framelist[k] = presented_framelist[i]

\* present (= capture) time of the k-th captured frame
CaptureT(k) == frames[captured_framelist[k]].present_t_ms

IsDupEntry(i) == composited_framelist[i].disposition = "COMPOSITED_DUP"

----------------------------------------------------------------------------
(* C1 *)

\* C1: in every state of a run the composite_frame numbers of
\* obs.composited_framelist, read in order, are 0, 1, 2, ..., n-1.
C1_SequenceNumbersContiguous ==
    \A i \in 1..OutLen : composited_framelist[i].composite_frame = Some(i - 1)

\* duplicates and non-duplicates have both been emitted
C1_Witness ==
    /\ OutLen >= 3
    /\ \E i \in 1..OutLen : IsDupEntry(i)
    /\ \E i \in 2..OutLen : ~IsDupEntry(i)

----------------------------------------------------------------------------
(* C2 *)

\* C2: the compositor advances whether or not a frame is available: once the
\* driver has processed a present event that no capture preceded, every tick
\* boundary strictly below its present time has fired, each one advancing the
\* tick clock by one interval and the sequence counter by 1.
C2_TicksFireBeforeFirstCapture ==
    ( /\ pc = "for"
      /\ NumPresented > 0
      /\ \A k \in 1..NumCaptured :
            captured_framelist[k] = presented_framelist[NumPresented] )
    => /\ PresentT(NumPresented) <= next_composite_time
       /\ last_composite_t_ms = (last_composite_framenum + 1) * composite_interval_ms

----------------------------------------------------------------------------
(* C3 *)

\* C3: an output entry is flagged COMPOSITED_DUP exactly when an earlier output
\* entry carries the same present_frame.
C3_DuplicateIffSeenBefore ==
    \A i \in 1..OutLen :
        IsDupEntry(i) <=>
            \E j \in 1..(i - 1) :
                composited_framelist[j].present_frame =
                    composited_framelist[i].present_frame

\* a frame emitted twice, followed by the first emission of a newer frame
C3_Witness ==
    \E i \in 2..OutLen :
        /\ IsDupEntry(i - 1)
        /\ ~IsDupEntry(i)

----------------------------------------------------------------------------
(* C4 *)

\* C4: when the driver has processed the whole trace every frame is IGNORED,
\* CAPTURED with no composite time or number, COMPOSITED or COMPOSITED_DUP;
\* and at all times every output entry and every frame carrying a composite
\* number is a frame gc.capture accepted, and no IGNORED frame is in the output.
C4_FinalDispositions ==
    /\ pc = "done" =>
          \A f \in 1..Len(frames) :
             /\ frames[f].disposition \in
                   {"IGNORED", "CAPTURED", "COMPOSITED", "COMPOSITED_DUP"}
             /\ frames[f].disposition = "CAPTURED" =>
                   /\ frames[f].composite_t_ms = None
                   /\ frames[f].composite_frame = None
    /\ \A i \in 1..OutLen :
          \E k \in 1..NumCaptured :
             /\ frames[captured_framelist[k]].present_frame =
                   composited_framelist[i].present_frame
             /\ composited_framelist[i].capture_t_ms # None
    /\ \A f \in 1..Len(frames) :
          frames[f].composite_frame # None =>
             \E k \in 1..NumCaptured : captured_framelist[k] = f
    /\ \A f \in 1..Len(frames) :
          frames[f].disposition = "IGNORED" =>
             \A i \in 1..OutLen :
                composited_framelist[i].present_frame # frames[f].present_frame

\* a finished run that left frames in all four final dispositions
C4_Witness ==
    /\ pc = "done"
    /\ \A d \in {"IGNORED", "CAPTURED", "COMPOSITED", "COMPOSITED_DUP"} :
          \E f \in 1..Len(frames) : frames[f].disposition = d

----------------------------------------------------------------------------
(* C5 *)

\* C5: a second run, with a freshly constructed GameCapture and OBS and a new
\* FrameStream over the same trace, ends with the same output list as the
\* first run did.
C5_SecondRunSameOutput ==
    (run = 2 /\ pc = "done") => composited_framelist = first_output

----------------------------------------------------------------------------
(* C6 *)

\* C6: with capture interval I > 0, a present event that follows its
\* predecessor by more than 2I is captured and leaves last_capture_ms equal to
\* its present time p; the next capture is the first later present event whose
\* present time is at least p + I.
C6_StallResync ==
    Interval > 0 =>
      \A i \in 2..NumPresented :
        PresentT(i) - PresentT(i - 1) > 2 * Interval =>
          /\ WasCaptured(i)
          /\ NumPresented = i => last_capture_ms = PresentT(i)
          /\ \A j \in (i + 1)..NumPresented :
                (\A m \in (i + 1)..(j - 1) : PresentT(m) < PresentT(i) + Interval)
                => (WasCaptured(j) <=> PresentT(j) >= PresentT(i) + Interval)

\* a stall, then an event too early to be captured, then the following capture
C6_Witness ==
    /\ Interval > 0
    /\ \E i \in 2..NumPresented :
          /\ PresentT(i) - PresentT(i - 1) > 2 * Interval
          /\ \E j \in (i + 2)..NumPresented :
                /\ \A m \in (i + 1)..(j - 1) : ~WasCaptured(m)
                /\ WasCaptured(j)

----------------------------------------------------------------------------
(* C7 *)

\* no capture so far saw elapsed > 2I (elapsed of the k-th capture is its
\* present time minus the grid position (k-1)*I left by the captures before it)
NoStall ==
    \A k \in 1..NumCaptured : CaptureT(k) - (k - 1) * Interval <= 2 * Interval

\* C7: with capture interval I > 0 and no stall, last_capture_ms after the k-th
\* capture is k*I and the k-th captured frame's capture_t_ms is in [k*I, (k+1)*I].
C7_CadenceNoDrift ==
    (Interval > 0 /\ NoStall) =>
      /\ last_capture_ms = NumCaptured * Interval
      /\ \A k \in 1..NumCaptured :
            /\ frames[captured_framelist[k]].capture_t_ms = Some(CaptureT(k))
            /\ k * Interval <= CaptureT(k)
            /\ CaptureT(k) <= (k + 1) * Interval

\* three captures on a stall-free cadence, one of them off the grid and one of
\* them with elapsed exactly 2I
C7_Witness ==
    /\ Interval > 0
    /\ NoStall
    /\ NumCaptured >= 3
    /\ \E k \in 1..NumCaptured : CaptureT(k) # k * Interval
    /\ \E k \in 1..NumCaptured : CaptureT(k) = (k + 1) * Interval

----------------------------------------------------------------------------
(* C8 *)

----------------------------------------------------------------------------
(* C9 *)

\* C9: scenario A (10 presents 50001 apart, composite interval 50000, capture
\* interval 0) ends with all 10 frames captured, 9 to 11 output entries and no
\* duplicate among them.
C9_ScenarioA ==
    ( /\ rows = ScenarioA.rows
      /\ composite_interval_ms = ScenarioA.frametime
      /\ Interval = 0
      /\ pc = "done" )
    => /\ NumCaptured = 10
       /\ OutLen \in 9..11
       /\ \A i \in 1..OutLen : ~IsDupEntry(i)

----------------------------------------------------------------------------
(* C10 *)

\* C10 as stated: with capture interval I > 0 the capture times of two
\* consecutively captured frames differ by at least I.
C10_ConsecutiveCapturesSpaced ==
    Interval > 0 =>
      \A k \in 2..NumCaptured : CaptureT(k) - CaptureT(k - 1) >= Interval

\* C10 amended: with capture interval I > 0 the capture times of the k-th and
\* the (k+2)-th captured frame differ by at least I (the interval spaces the
\* sampling grid; two consecutive captures can be closer than I).
C10_EverySecondCaptureSpaced ==
    Interval > 0 =>
      \A k \in 3..NumCaptured : CaptureT(k) - CaptureT(k - 2) >= Interval

\* three captures, two consecutive ones closer together than I
C10_Witness ==
    /\ Interval > 0
    /\ NumCaptured >= 3
    /\ \E k \in 2..NumCaptured : CaptureT(k) - CaptureT(k - 1) < Interval

----------------------------------------------------------------------------
(* C11 *)

\* C11: with capture interval I > 0, after any prefix of the trace the number
\* of captured frames times I is at most the present time of the most recently
\* captured frame.
C11_CaptureRateLimit ==
    (Interval > 0 /\ NumCaptured > 0) =>
        NumCaptured * Interval <= CaptureT(NumCaptured)

\* three captures, the last one exactly on the limit
C11_Witness ==
    /\ Interval > 0
    /\ NumCaptured >= 3
    /\ NumCaptured * Interval = CaptureT(NumCaptured)

----------------------------------------------------------------------------
(* C12 *)

\* the i-th processed present event was captured
HasCaptureTime(i) == frames[presented_framelist[i]].capture_t_ms # None

\* the most recently captured frame among the processed present events
MostRecentlyCaptured ==
    presented_framelist[
        CHOOSE i \in 1..NumPresented :
            /\ HasCaptureTime(i)
            /\ \A j \in (i + 1)..NumPresented : ~HasCaptureTime(j)]

\* C12: every tick emits the most recently captured frame among the present
\* events processed before the event being looked at, and a captured frame that
\* a newer capture supersedes while it is still CAPTURED stays CAPTURED and
\* never appears in the output.
C12_LastCapturedWins ==
    [][ /\ OutLen' > OutLen =>
             /\ \E i \in 1..NumPresented : HasCaptureTime(i)
             /\ \A i \in 1..NumPresented : presented_framelist[i] # frame[1]
             /\ composited_framelist'[OutLen'].present_frame =
                   frames[MostRecentlyCaptured].present_frame
        /\ \A k \in 1..(NumCaptured - 1) :
             frames[captured_framelist[k]].disposition = "CAPTURED" =>
               /\ frames'[captured_framelist[k]].disposition = "CAPTURED"
               /\ \A i \in 1..OutLen' :
                     composited_framelist'[i].present_frame #
                        frames[captured_framelist[k]].present_frame
      ]_vars

\* a finished run in which a superseded capture was left CAPTURED and frames
\* captured before and after it were emitted
C12_Witness ==
    /\ pc = "done"
    /\ \E k \in 2..(NumCaptured - 1) :
          /\ frames[captured_framelist[k]].disposition = "CAPTURED"
          /\ frames[captured_framelist[k - 1]].disposition # "CAPTURED"
          /\ frames[captured_framelist[k + 1]].disposition # "CAPTURED"

----------------------------------------------------------------------------
(* C13 *)

\* C13: an entry of obs.composited_framelist never changes once appended, even
\* when its frame is emitted again and the frame itself is re-marked.
C13_EntriesAreSnapshots ==
    [][ /\ OutLen' >= OutLen
        /\ \A i \in 1..OutLen : composited_framelist'[i] = composited_framelist[i]
      ]_vars

\* the first entry of a frame is still COMPOSITED after the frame itself has
\* become COMPOSITED_DUP
C13_Witness ==
    \E i \in 1..OutLen : \E f \in 1..Len(frames) :
        /\ frames[f].present_frame = composited_framelist[i].present_frame
        /\ frames[f].disposition = "COMPOSITED_DUP"
        /\ composited_framelist[i].disposition = "COMPOSITED"
        /\ frames[f].composite_frame # composited_framelist[i].composite_frame

----------------------------------------------------------------------------
(* C14 *)

\* a frame was captured before the latest processed present event
CaptureBeforeLatest ==
    \E k \in 1..NumCaptured :
        captured_framelist[k] # presented_framelist[NumPresented]

\* C14: when a captured frame is pending, the driver emits the entries of one
\* event before it applies capture to that event, each with a composite time
\* strictly below the event's present time and in tick order, and when it is
\* done with the event next_composite_time() is at least the present time.
C14_CatchUpLoop ==
    /\ [][ OutLen' > OutLen =>
             /\ OutLen' = OutLen + 1
             /\ pc = "while"
             /\ \A i \in 1..NumPresented : presented_framelist[i] # frame[1]
             /\ composited_framelist'[OutLen'].composite_t_ms[1] <
                   frames[frame[1]].present_t_ms
             /\ OutLen > 0 =>
                   composited_framelist[OutLen].composite_t_ms[1] <
                      composited_framelist'[OutLen'].composite_t_ms[1]
         ]_vars
    /\ []( (pc = "for" /\ NumPresented > 0 /\ CaptureBeforeLatest) =>
              PresentT(NumPresented) <= next_composite_time )

\* an event that made two ticks fire and landed exactly on the next boundary
C14_Witness ==
    /\ pc = "for"
    /\ NumPresented >= 2
    /\ CaptureBeforeLatest
    /\ PresentT(NumPresented) = next_composite_time
    /\ OutLen >= 2
    /\ composited_framelist[OutLen - 1].composite_t_ms[1] >
          PresentT(NumPresented - 1)

----------------------------------------------------------------------------
(* C15 *)

\* C15: the entry with composite_frame n has composite_t_ms (n+1) * interval,
\* and last_composite_t_ms = (last_composite_framenum + 1) * interval.
C15_TickGrid ==
    /\ \A i \in 1..OutLen :
          composited_framelist[i].composite_t_ms =
             Some((composited_framelist[i].composite_frame[1] + 1)
                     * composite_interval_ms)
    /\ \A i \in 2..OutLen :
          composited_framelist[i].composite_t_ms[1] -
             composited_framelist[i - 1].composite_t_ms[1] = composite_interval_ms
    /\ last_composite_t_ms = (last_composite_framenum + 1) * composite_interval_ms

C15_Witness == OutLen >= 3 /\ last_composite_framenum = OutLen - 1

----------------------------------------------------------------------------
(* C16 *)

\* C16: a call of obs.composite on a frame whose disposition is UNKNOWN or
\* IGNORED returns False and changes neither the frames, the tick clock, the
\* sequence counter, the last composited frame nor the output list.
C16_UnreadyFrameIsNoOp ==
    [][ ( /\ composite_call' # composite_call
          /\ composite_call' # None
          /\ frames[composite_call'[1].frame].disposition \in {"UNKNOWN", "IGNORED"} )
        => /\ composite_call'[1].result = FALSE
           /\ UNCHANGED << frames, last_composite_t_ms, last_composite_framenum,
                           obs_last_capture_frame, composited_framelist >>
      ]_vars

\* a refused call after the compositor has emitted entries
C16_Witness ==
    /\ composite_call # None
    /\ composite_call[1].result = FALSE
    /\ frames[composite_call[1].frame].disposition \in {"UNKNOWN", "IGNORED"}
    /\ OutLen >= 1

----------------------------------------------------------------------------
(* C17 *)

Forward(d, e) ==
    \/ d = e
    \/ d = "UNKNOWN" /\ e \in {"IGNORED", "CAPTURED"}
    \/ d = "CAPTURED" /\ e \in {"COMPOSITED", "COMPOSITED_DUP"}
    \/ d = "COMPOSITED" /\ e = "COMPOSITED_DUP"

\* C17: over a run a frame's disposition only moves forward: UNKNOWN to IGNORED
\* or CAPTURED, CAPTURED to COMPOSITED or COMPOSITED_DUP, COMPOSITED to
\* COMPOSITED_DUP, and nothing else.
C17_DispositionForward ==
    [][ \A f \in 1..Len(frames) :
          /\ f <= Len(frames')
          /\ Forward(frames[f].disposition, frames'[f].disposition)
      ]_vars

\* every forward move has been taken by some frame
C17_Witness ==
    /\ \E f \in 1..Len(frames) : frames[f].disposition = "IGNORED"
    /\ \E f \in 1..Len(frames) : frames[f].disposition = "COMPOSITED_DUP"
    /\ \E f \in 1..Len(frames) : frames[f].disposition = "COMPOSITED"
    /\ \E f \in 1..Len(frames) : frames[f].disposition = "UNKNOWN"

----------------------------------------------------------------------------
(* C18 *)

\* C18: every output entry has a composite time at or after the capture time
\* of the frame it copies.
C18_NoEntryBeforeCapture ==
    \A i \in 1..OutLen :
        composited_framelist[i].composite_t_ms[1] >=
            composited_framelist[i].capture_t_ms[1]

----------------------------------------------------------------------------
(* C19 *)

\* C19: the driver reaches the end of every trace, and every call of
\* obs.composite it makes succeeds.
C19_DriverTerminates ==
    /\ <>(pc = "done")
    /\ [](composite_call # None => composite_call[1].result)

\* a finished run whose loop ran more than once for one present event
C19_Witness ==
    /\ pc = "done"
    /\ composite_call # None
    /\ \E i \in 2..OutLen : \E j \in 1..NumPresented :
          /\ composited_framelist[i - 1].composite_t_ms[1] < PresentT(j)
          /\ composited_framelist[i].composite_t_ms[1] < PresentT(j)
          /\ j > 1 => composited_framelist[i - 1].composite_t_ms[1] >= PresentT(j - 1)

----------------------------------------------------------------------------
(* C20 *)

\* C20: at the end of a run the reported unused count is not negative and is
\* the number of frames left with disposition CAPTURED.
C20_UnusedCount ==
    pc = "done" =>
        /\ Unused >= 0
        /\ Unused = Cardinality({f \in 1..Len(frames) :
                                    frames[f].disposition = "CAPTURED"})

====
